---- MODULE Spec2Model ----
(***************************************************************************)
(* Model of the document ingestion pipeline of CredAnalyzer-backend:       *)
(* app/main.py (analyze, analyze_with_openai, extrair_segmento_do_cnae),   *)
(* app/utils.py (text extraction strategies, SCR structured extractor).    *)
(*                                                                         *)
(* Strings are modelled as sequences of atoms (short literal pieces of     *)
(* text); concatenation is \o, str.replace is ReplaceAll on sequences.     *)
(***************************************************************************)
EXTENDS Integers, Sequences, FiniteSets, TLC

VARIABLES
    files,             \* the upload list: Seq of [filename, content_type, payload]
    planning_data,     \* Form field: "none", "json" or "badjson"
    user_id,           \* Form field: "none" or a user id
    reportsLeft,       \* subscription.reportsLeft of the user in Firestore
    pc,                \* position of the analyze handler
    i,                 \* index of the first-pass loop (1-based)
    combined_text,     \* the corpus under assembly
    processed_files,   \* list of per-file result records
    registrato_files,  \* deferred registrato uploads
    cartao_cnpj_text,  \* accumulated CNPJ card text
    segment,           \* derived segment label
    r,                 \* index of the second-pass loop (1-based)
    scr_data,          \* local of the second pass (survives iterations)
    response,          \* outcome of the request
    sent,              \* what analyze_with_openai handed to the model
    log,               \* trace of collaborator calls, in order
    temp_files,        \* the temporary files that exist on disk
    wrapper_doc,       \* DocumentWrapper.convert_to_markdown: its input
    wrapper_pc,        \* position of convert_to_markdown (vision path)
    image_paths,       \* its local list of page-image paths
    wrapper_result,    \* what it returned
    reports_before,    \* subscription.reportsLeft before the request or the calls
    calls              \* concurrent consumir_relatorio calls: position, local, result

analyzeVars == <<files, planning_data, user_id, reportsLeft, pc, i, combined_text,
                 processed_files, registrato_files, cartao_cnpj_text, segment, r,
                 scr_data, response, sent, log>>

wrapperVars == <<wrapper_doc, wrapper_pc, image_paths, wrapper_result>>

creditVars == <<reports_before, calls>>

vars == <<analyzeVars, temp_files, wrapperVars, creditVars>>

\* ------------------------------------------------------------------ bounds
MaxFiles == 2

\* ------------------------------------------------------- sequence helpers
RECURSIVE Flatten(_)
Flatten(ss) == IF ss = <<>> THEN <<>> ELSE Head(ss) \o Flatten(Tail(ss))

Prefix(s, n) == IF n <= 0 THEN <<>> ELSE SubSeq(s, 1, IF n < Len(s) THEN n ELSE Len(s))

DropFirst(s, n) == IF n >= Len(s) THEN <<>> ELSE SubSeq(s, n + 1, Len(s))

EndsWith(s, p) == Len(p) <= Len(s) /\ SubSeq(s, Len(s) - Len(p) + 1, Len(s)) = p

Occurs(p, s) == \E k \in 1..(Len(s) - Len(p) + 1) : SubSeq(s, k, k + Len(p) - 1) = p

\* Python str.replace(old, new): every non-overlapping occurrence, left to right.
MatchesAt(s, old, k) == k + Len(old) - 1 <= Len(s) /\ SubSeq(s, k, k + Len(old) - 1) = old

RECURSIVE ReplaceFrom(_, _, _, _)
ReplaceFrom(s, old, new, from) ==
    LET hits == {k \in from..Len(s) : MatchesAt(s, old, k)} IN
    IF hits = {} THEN SubSeq(s, from, Len(s))
    ELSE LET m == CHOOSE k \in hits : \A h \in hits : k <= h IN
         SubSeq(s, from, m - 1) \o new \o ReplaceFrom(s, old, new, m + Len(old))

ReplaceAll(s, old, new) == IF old = <<>> THEN s ELSE ReplaceFrom(s, old, new, 1)

\* Python str.strip() == "": only whitespace atoms.
WhitespaceAtoms == {" ", "\n", "\n\n"}

\* The emptiness test reduced to `not text`: whitespace-only text counts as
\* text.
IsBlank_EmptyOnly(text) == text = <<>>

IsBlank(text) == \A k \in 1..Len(text) : text[k] \in WhitespaceAtoms

\* ------------------------------------------------------------ file names
\* A filename is a sequence of words; `kw in filename.lower()` is the search
\* of the lower-cased words for kw (no keyword of the classifier contains
\* another one, nor spans two words of the names used here).
Lower(w) ==
    CASE w = "REGISTRATO" -> "registrato"
      [] w = "Registrato" -> "registrato"
      [] w = "CNPJ" -> "cnpj"
      [] OTHER -> w

LowerName(filename) == [k \in 1..Len(filename) |-> Lower(filename[k])]

Contains(kw, lowered) == \E k \in 1..Len(lowered) : lowered[k] = kw

\* supported_types of analyze (lines 385-387).
supported_types ==
    {"application/pdf", "image/jpeg", "image/png", "application/msword",
     "application/vnd.openxmlformats-officedocument.wordprocessingml.document"}

\* The chain with the 'fiscal' test placed before the 'registro'/'contrato' one.
Category_FiscalFirst(file_filename) ==
    LET filename == LowerName(file_filename) IN
    IF Contains("cnpj", filename) \/ Contains("cartao", filename) THEN "Cartao CNPJ"
    ELSE IF Contains("registrato", filename) THEN "Registro"
    ELSE IF Contains("imposto", filename) \/ Contains("irpf", filename) THEN "Imposto de Renda"
    ELSE IF Contains("fiscal", filename) THEN "Situacao Fiscal"
    ELSE IF Contains("registro", filename) \/ Contains("contrato", filename) THEN "Registro"
    ELSE IF Contains("faturamento", filename)
         THEN IF Contains("gerencial", filename) THEN "Faturamento Gerencial"
              ELSE "Faturamento Fiscal"
    ELSE IF Contains("spc", filename) \/ Contains("serasa", filename) THEN "SPC e Serasa"
    ELSE IF Contains("demonstrativo", filename) \/ Contains("extrato", filename) THEN "Demonstrativo"
    ELSE "Documento Adicional"

\* The if/elif chain of analyze that picks the category (lines 398-489).
\* Accents of the labels are dropped: "Cartao CNPJ" is 'Cartão CNPJ',
\* "Situacao Fiscal" is 'Situação Fiscal'.
Category(file_filename) ==
    LET filename == LowerName(file_filename) IN
    IF Contains("cnpj", filename) \/ Contains("cartao", filename) THEN "Cartao CNPJ"
    ELSE IF Contains("registrato", filename) THEN "Registro"
    ELSE IF Contains("imposto", filename) \/ Contains("irpf", filename) THEN "Imposto de Renda"
    ELSE IF Contains("registro", filename) \/ Contains("contrato", filename) THEN "Registro"
    ELSE IF Contains("fiscal", filename) THEN "Situacao Fiscal"
    ELSE IF Contains("faturamento", filename)
         THEN IF Contains("gerencial", filename) THEN "Faturamento Gerencial"
              ELSE "Faturamento Fiscal"
    ELSE IF Contains("spc", filename) \/ Contains("serasa", filename) THEN "SPC e Serasa"
    ELSE IF Contains("demonstrativo", filename) \/ Contains("extrato", filename) THEN "Demonstrativo"
    ELSE "Documento Adicional"

\* Route with the 'registrato' test placed after the 'imposto'/'irpf' one.
Route_ImpostoFirst(file_filename) ==
    LET filename == LowerName(file_filename) IN
    IF Contains("cnpj", filename) \/ Contains("cartao", filename) THEN "cnpj"
    ELSE IF Contains("imposto", filename) \/ Contains("irpf", filename) THEN "standard"
    ELSE IF Contains("registrato", filename) THEN "deferred"
    ELSE "standard"

\* Which branch of the loop body handles the file: "cnpj" (lines 403-440),
\* "deferred" (lines 441-462) or "standard" (lines 463-524).
Route(file_filename) ==
    LET filename == LowerName(file_filename) IN
    IF Contains("cnpj", filename) \/ Contains("cartao", filename) THEN "cnpj"
    ELSE IF Contains("registrato", filename) THEN "deferred"
    ELSE "standard"

\* ------------------------------------------------ text extraction strategies
\* A payload stands for the bytes of an upload by what the libraries make of
\* them: corrupt (the parser or OCR engine raises), parts (pages of a PDF,
\* paragraphs of a Word file, the OCR output of an image), tables (what
\* camelot detects) and camelot_fails (camelot raises).
Raised(msg) == [raised |-> TRUE, text |-> msg]
Returned(text) == [raised |-> FALSE, text |-> text]

RECURSIVE PdfPages(_, _)
PdfPages(parts, page_num) ==
    IF parts = <<>> THEN <<>>
    ELSE (IF IsBlank(Head(parts)) THEN <<>>
          ELSE <<"\n--- Pagina ", ToString(page_num + 1), " ---\n">> \o Head(parts))
         \o PdfPages(Tail(parts), page_num + 1)

\* The PDF strategy degrading like the image one: "" instead of raising.
extract_text_from_pdf_bytes_swallow(file_content) ==
    IF file_content.corrupt THEN Returned(<<>>)
    ELSE Returned(PdfPages(file_content.parts, 0))

extract_text_from_pdf_bytes(file_content) ==
    IF file_content.corrupt THEN Raised(<<"Erro ao processar PDF: ", "erro">>)
    ELSE Returned(PdfPages(file_content.parts, 0))

\* The image strategy returning "" on failure, as its comment says.
OcrFailureTextEmpty == <<>>

OcrFailureText == <<"[Erro ao processar imagem: ", "erro", "]">>

extract_text_from_image_bytes(file_content) ==
    IF file_content.corrupt THEN Returned(OcrFailureText)
    ELSE Returned(Flatten(file_content.parts))

RECURSIVE JoinNewline(_)
JoinNewline(paragraphs) ==
    IF paragraphs = <<>> THEN <<>>
    ELSE IF Len(paragraphs) = 1 THEN Head(paragraphs)
    ELSE Head(paragraphs) \o <<"\n">> \o JoinNewline(Tail(paragraphs))

extract_text_from_word_bytes(file_content) ==
    IF file_content.corrupt THEN Raised(<<"Erro ao processar documento Word: ", "erro">>)
    ELSE Returned(JoinNewline(SelectSeq(file_content.parts, LAMBDA p : ~IsBlank(p))))

extract_text_from_document(file) ==
    IF file.content_type = "application/pdf"
    THEN extract_text_from_pdf_bytes(file.payload)
    ELSE IF file.content_type \in {"image/jpeg", "image/png"}
    THEN extract_text_from_image_bytes(file.payload)
    ELSE IF file.content_type \in
            {"application/msword",
             "application/vnd.openxmlformats-officedocument.wordprocessingml.document"}
    THEN extract_text_from_word_bytes(file.payload)
    ELSE Returned(<<>>)

\* ------------------------------------------------- CNAE segment classifier
Digits == {"0", "1", "2", "3", "4", "5", "6", "7", "8", "9"}

DigitValue(d) ==
    CASE d = "0" -> 0 [] d = "1" -> 1 [] d = "2" -> 2 [] d = "3" -> 3 [] d = "4" -> 4
      [] d = "5" -> 5 [] d = "6" -> 6 [] d = "7" -> 7 [] d = "8" -> 8 [] d = "9" -> 9

\* int() of a non-empty sequence of digit atoms.
RECURSIVE IntOfDigits(_)
IntOfDigits(ds) ==
    IF ds = <<>> THEN 0
    ELSE IntOfDigits(SubSeq(ds, 1, Len(ds) - 1)) * 10 + DigitValue(ds[Len(ds)])

\* The label phrases of the text, each one atom that ends where the code may
\* start, and the patterns of padroes_cnae (1..4) that match it up to the
\* code group (re.IGNORECASE):
\*   "CNAE principal: "                 patterns 1 and 4
\*   "atividade economica principal: "  patterns 2 and 4
\*   "CODIGO E DESCRICAO DA ATIVIDADE ECONOMICA PRINCIPAL : "
\*        patterns 3 and 4 (pattern 2 allows no blank before the colon)
\*   "CODIGO E DESCRICAO DA ATIVIDADE ECONOMICA PRINCIPAL\n"
\*        patterns 2, 3 and 4
\*   "principal - "                     pattern 4 only
padroes_cnae == <<1, 2, 3, 4>>

LabelMatches(padrao, atom) ==
    CASE atom = "CNAE principal: " -> padrao \in {1, 4}
      [] atom = "atividade economica principal: " -> padrao \in {2, 4}
      [] atom = "CODIGO E DESCRICAO DA ATIVIDADE ECONOMICA PRINCIPAL : " -> padrao \in {3, 4}
      [] atom = "CODIGO E DESCRICAO DA ATIVIDADE ECONOMICA PRINCIPAL\n" -> padrao \in {2, 3, 4}
      [] atom = "principal - " -> padrao = 4
      [] OTHER -> FALSE

\* The longest run of digit atoms of texto from position k on.
RECURSIVE DigitRun(_, _)
DigitRun(texto, k) ==
    IF k > Len(texto) \/ texto[k] \notin Digits THEN <<>>
    ELSE <<texto[k]>> \o DigitRun(texto, k + 1)

\* The code group (\d+\-\d+\/\d+|\d+\.\d+\-\d+\-\d+|\d+\-\d+|\d+\.\d+) at
\* position k: every alternative starts with digits, "-" or ".", digits, so
\* it matches exactly when the third or fourth one does; the digits of
\* group(1) are then the digit runs of the match in order (CodeDigits).
CodeMatchesAt(texto, k) ==
    LET run1 == DigitRun(texto, k)
        sep == k + Len(run1)
    IN  /\ run1 # <<>>
        /\ sep + 1 <= Len(texto)
        /\ texto[sep] \in {"-", "."}
        /\ texto[sep + 1] \in Digits

\* Digits of the matched code, long enough for [:2]: the first run followed
\* by the run after the separator.
CodeDigits(texto, k) ==
    LET run1 == DigitRun(texto, k) IN run1 \o DigitRun(texto, k + Len(run1) + 1)

\* re.search(padrao, texto): position of the code of the leftmost match, 0 if none.
SearchCnae(padrao, texto) ==
    LET hits == {k \in 1..Len(texto) : LabelMatches(padrao, texto[k]) /\ CodeMatchesAt(texto, k + 1)}
    IN  IF hits = {} THEN 0 ELSE (CHOOSE k \in hits : \A m \in hits : k <= m) + 1

\* The range table with the health range widened to 85..88 and tested
\* before the education division.
SegmentOfDivision_HealthFrom85(cnae_num) ==
    IF 45 <= cnae_num /\ cnae_num <= 47 THEN "Varejo"
    ELSE IF 5 <= cnae_num /\ cnae_num <= 33 THEN "Industria"
    ELSE IF (58 <= cnae_num /\ cnae_num <= 63) \/ cnae_num = 72 THEN "Tecnologia"
    ELSE IF 85 <= cnae_num /\ cnae_num <= 88 THEN "Saude"
    ELSE IF cnae_num = 85 THEN "Educacao"
    ELSE "Servicos"

\* The range table of extrair_segmento_do_cnae (lines 160-181).
SegmentOfDivision(cnae_num) ==
    IF 45 <= cnae_num /\ cnae_num <= 47 THEN "Varejo"
    ELSE IF 5 <= cnae_num /\ cnae_num <= 33 THEN "Industria"
    ELSE IF (58 <= cnae_num /\ cnae_num <= 63) \/ cnae_num = 72 THEN "Tecnologia"
    ELSE IF 86 <= cnae_num /\ cnae_num <= 88 THEN "Saude"
    ELSE IF cnae_num = 85 THEN "Educacao"
    ELSE "Servicos"

\* The patterns merged into one search: the code of the leftmost match of
\* any pattern decides, whatever the pattern's rank.
SegmentFromPatterns_Leftmost(padroes, texto) ==
    LET hits == {SearchCnae(padroes[n], texto) : n \in 1..Len(padroes)} \ {0} IN
    IF hits = {} THEN "Outro"
    ELSE LET at == CHOOSE k \in hits : \A m \in hits : k <= m IN
         SegmentOfDivision(IntOfDigits(Prefix(CodeDigits(texto, at), 2)))

RECURSIVE SegmentFromPatterns(_, _)
SegmentFromPatterns(padroes, texto) ==
    IF padroes = <<>> THEN "Outro"
    ELSE LET at == SearchCnae(Head(padroes), texto) IN
         IF at = 0 THEN SegmentFromPatterns(Tail(padroes), texto)
         ELSE LET cnae_limpo == Prefix(CodeDigits(texto, at), 2) IN
              IF cnae_limpo = <<>>  \* int('') raises ValueError: next pattern
              THEN SegmentFromPatterns(Tail(padroes), texto)
              ELSE SegmentOfDivision(IntOfDigits(cnae_limpo))

extrair_segmento_do_cnae(texto) == SegmentFromPatterns(padroes_cnae, texto)

\* ------------------------------------------------ table recovery extractor
\* A DataFrame is a sequence of rows of equal width; a cell is a sequence of
\* character atoms, NaN the cell pandas fills in for a missing column.
NaN == <<"NaN">>

Max(a, b) == IF a >= b THEN a ELSE b

RECURSIVE TablesWidth(_)
TablesWidth(dfs) ==
    IF dfs = <<>> THEN 0
    ELSE Max(IF Head(dfs) = <<>> THEN 0 ELSE Len(Head(dfs)[1]), TablesWidth(Tail(dfs)))

\* df.replace('\n', ' ', regex=True) on one cell.
NormalizeCell(cell) == [k \in 1..Len(cell) |-> IF cell[k] = "\n" THEN " " ELSE cell[k]]

PadRow(row, width) ==
    [k \in 1..width |-> IF k <= Len(row) THEN NormalizeCell(row[k]) ELSE NaN]

\* pd.concat(dfs, ignore_index=True): the rows of every table in detection
\* order, over the union of the column labels.
PdConcat(dfs) ==
    LET width == TablesWidth(dfs)
        rows == Flatten(dfs)
    IN  [k \in 1..Len(rows) |-> PadRow(rows[k], width)]

pdf_para_dataframe(pdf_bytes) ==
    IF pdf_bytes.camelot_fails THEN <<>>
    ELSE IF pdf_bytes.tables # <<>> THEN PdConcat(pdf_bytes.tables)
    ELSE <<>>

\* The temporary copy pdf_para_dataframe leaves on disk: it is created with
\* delete=False (line 299) and os.unlink (line 328) is reached only when
\* nothing has raised in between.
TempFilesLeft(pdf_bytes, owner) ==
    IF pdf_bytes.camelot_fails THEN {[kind |-> "pdf_copy", owner |-> owner]} ELSE {}

NumRows(df) == Len(df)
NumCols(df) == IF df = <<>> THEN 0 ELSE Len(df[1])
\* df.empty taken as "no row", whatever the number of columns.
DfEmpty_NoRows(df) == NumRows(df) = 0

DfEmpty(df) == NumRows(df) = 0 \/ NumCols(df) = 0

\* extrair_texto_pdf: the pages' text joined without separator, "" when
\* PyPDF2 raises.
extrair_texto_pdf(pdf_bytes) ==
    IF pdf_bytes.corrupt THEN <<>> ELSE Flatten(pdf_bytes.parts)

\* ------------------------------------------------ SCR structured extractor
NotFound == <<"###">>

\* encontrar(comeco, r'\n', fonte): re.findall(comeco + '.*' + '\n', fonte,
\* re.DOTALL)[0] runs from the first comeco to the last line break of fonte
\* ('.*' is greedy and DOTALL lets it cross lines); then every occurrence of
\* comeco and of the line break is deleted from it.
encontrar(comeco, final, fonte) ==
    LET starts == {k \in 1..Len(fonte) : fonte[k] = comeco} IN
    IF starts = {} THEN NotFound
    ELSE LET first == CHOOSE k \in starts : \A m \in starts : k <= m
             ends == {k \in (first + 1)..Len(fonte) : fonte[k] = final}
         IN  IF ends = {} THEN NotFound
             ELSE LET last == CHOOSE k \in ends : \A m \in ends : k >= m IN
                  SelectSeq(SubSeq(fonte, first, last), LAMBDA a : a # comeco /\ a # final)

\* re.sub(r'[^\d,.-]', '', str(raw))
CleanCell(raw) == SelectSeq(raw, LAMBDA c : c \in Digits \cup {",", ".", "-"})

\* The conversion reading the cell in US notation: commas deleted, the
\* period kept as the decimal point.
BrazilianToDecimal_US(clean) == SelectSeq(clean, LAMBDA c : c # ",")

\* clean.replace('.', '').replace(',', '.')
BrazilianToDecimal(clean) ==
    LET noDots == SelectSeq(clean, LAMBDA c : c # ".") IN
    [k \in 1..Len(noDots) |-> IF noDots[k] = "," THEN "." ELSE noDots[k]]

\* float(s) for s made of digits, "." and "-": optional sign, digits with at
\* most one point and at least one digit. The value is kept in hundredths
\* (cents), which is exact for at most two decimals.
FloatOk(s) ==
    LET body == IF s # <<>> /\ s[1] = "-" THEN Tail(s) ELSE s IN
    /\ \A k \in 1..Len(body) : body[k] \in Digits \cup {"."}
    /\ Cardinality({k \in 1..Len(body) : body[k] = "."}) <= 1
    /\ \E k \in 1..Len(body) : body[k] \in Digits

FloatCents(s) ==
    LET neg == s # <<>> /\ s[1] = "-"
        body == IF neg THEN Tail(s) ELSE s
        dots == {k \in 1..Len(body) : body[k] = "."}
        dot == IF dots = {} THEN Len(body) + 1 ELSE CHOOSE k \in dots : TRUE
        whole == SubSeq(body, 1, dot - 1)
        frac == Prefix(DropFirst(body, dot) \o <<"0", "0">>, 2)
        magnitude == IntOfDigits(whole) * 100 + IntOfDigits(frac)
    IN  IF neg THEN 0 - magnitude ELSE magnitude

\* The reading of one debt cell (lines 397-414 and 419-436): the grid is
\* large enough or the field is left alone; the parse may raise ValueError.
ReadCell(df, row, col) ==
    IF NumRows(df) > row /\ NumCols(df) > col
    THEN LET raw == IF df[row + 1][col + 1] # NaN THEN df[row + 1][col + 1] ELSE <<"0">>
             clean0 == CleanCell(raw)
             clean == IF clean0 # <<>> THEN BrazilianToDecimal(clean0) ELSE clean0
         IN  IF clean = <<>> THEN [read |-> TRUE, raised |-> FALSE, value |-> 0]
             ELSE IF FloatOk(clean) THEN [read |-> TRUE, raised |-> FALSE, value |-> FloatCents(clean)]
             ELSE [read |-> TRUE, raised |-> TRUE, value |-> 0]
    ELSE [read |-> FALSE, raised |-> FALSE, value |-> 0]

NoneValue == <<>>
NaoIdentificado == <<"Nao identificado">>

resultado0 ==
    [divida_em_dia |-> 0, divida_vencida |-> 0, total_dividas |-> 0,
     erro |-> NoneValue, planilha_gerada |-> NoneValue,
     empresa_nome |-> NaoIdentificado, empresa_cnpj |-> NaoIdentificado]

ExcelName(filename) ==
    IF filename # <<>> THEN ReplaceAll(filename, <<".pdf">>, <<".xlsx">>)
    ELSE <<"SCR_convertido.xlsx">>

\* extract_scr_data_from_pdf (lines 356-481). Amounts are in cents.
extract_scr_data_from_pdf(pdf_data, filename) ==
    LET df == pdf_para_dataframe(pdf_data)
        texto_completo == extrair_texto_pdf(pdf_data)
        nome_empresa == encontrar("Razao Social:", "\n", texto_completo)
        cnpj == encontrar("CNPJ:", "\n", texto_completo)
        r1 == [resultado0 EXCEPT
                 !.empresa_nome = IF nome_empresa # NotFound THEN nome_empresa ELSE NaoIdentificado,
                 !.empresa_cnpj = IF cnpj # NotFound THEN cnpj ELSE NaoIdentificado]
        em_dia == ReadCell(df, 2, 1)
        vencida == ReadCell(df, 2, 2)
        erro_celulas == <<"Erro ao extrair dividas das celulas 4C e 4D: ", "erro">>
    IN  IF DfEmpty(df)
        THEN [r1 EXCEPT !.erro = <<"DataFrame vazio - nao foi possivel extrair tabelas do PDF">>]
        ELSE IF em_dia.raised
        THEN [r1 EXCEPT !.erro = erro_celulas]
        ELSE LET r2 == IF em_dia.read THEN [r1 EXCEPT !.divida_em_dia = em_dia.value] ELSE r1 IN
             IF vencida.raised
             THEN [r2 EXCEPT !.erro = erro_celulas]
             ELSE LET r3 == IF vencida.read THEN [r2 EXCEPT !.divida_vencida = vencida.value] ELSE r2
                      r4 == [r3 EXCEPT !.total_dividas = r3.divida_em_dia + r3.divida_vencida]
                  IN  [r4 EXCEPT !.planilha_gerada = ExcelName(filename)]

\* --------------------------------------------------- token-budget assembler
LIMITE_TOTAL_TOKENS == 128000
LIMITE_COMPLETION == 16384
LIMITE_PROMPT == LIMITE_TOTAL_TOKENS - LIMITE_COMPLETION

\* The tokenizer (tiktoken) on atoms: a token is one atom, or two adjacent
\* whitespace atoms merged into one token, taken greedily from the left.
Mergeable(a, b) == a \in WhitespaceAtoms /\ b \in WhitespaceAtoms

\* Number of whitespace atoms that directly precede position k.
RECURSIVE WhitespaceBefore(_, _)
WhitespaceBefore(text, k) ==
    IF k = 1 \/ text[k - 1] \notin WhitespaceAtoms THEN 0
    ELSE 1 + WhitespaceBefore(text, k - 1)

\* A token starts at position k unless k is the second atom of a merged
\* pair; pairs are taken from the start of each run of whitespace atoms.
TokenStart(text, k) ==
    text[k] \notin WhitespaceAtoms \/ WhitespaceBefore(text, k) % 2 = 0

Encode(text) ==
    LET starts == SelectSeq([k \in 1..Len(text) |-> k], LAMBDA k : TokenStart(text, k)) IN
    [n \in 1..Len(starts) |->
        IF starts[n] < Len(text) /\ Mergeable(text[starts[n]], text[starts[n] + 1])
        THEN SubSeq(text, starts[n], starts[n] + 1)
        ELSE SubSeq(text, starts[n], starts[n])]

Decode(tokens) == Flatten(tokens)

\* Python's tokens[:n]: for n < 0 the last -n tokens are dropped.
SliceTo(tokens, n) ==
    IF n >= 0 THEN Prefix(tokens, n) ELSE Prefix(tokens, Len(tokens) + n)

prompt_fixo == <<"Analise o seguinte conteudo dos documentos empresariais:", "\n\n">>
prompt_final == <<"\n\n", "Forneca uma analise completa seguindo a estrutura solicitada. ...">>
TruncationMarker == <<"\n\n", "[TEXTO TRUNCADO AUTOMATICAMENTE]">>

fixed_tokens == Len(Encode(prompt_fixo \o prompt_final))

tokens_disponiveis_para_docs(system_tokens) == LIMITE_PROMPT - system_tokens - fixed_tokens

\* The truncation test written with >=: a corpus that fills the allowance
\* exactly is cut and marked.
FinalCorpus_CutAtEqual(text, system_tokens) ==
    LET doc_tokens == Encode(text)
        allowance == tokens_disponiveis_para_docs(system_tokens)
    IN  IF Len(doc_tokens) >= allowance
        THEN Decode(SliceTo(doc_tokens, allowance)) \o TruncationMarker
        ELSE text

\* The corpus analyze_with_openai puts in the user prompt (lines 224-233).
FinalCorpus(text, system_tokens) ==
    LET doc_tokens == Encode(text)
        allowance == tokens_disponiveis_para_docs(system_tokens)
    IN  IF Len(doc_tokens) > allowance
        THEN Decode(SliceTo(doc_tokens, allowance)) \o TruncationMarker
        ELSE text

\* What the model receives (lines 236, 257-265).
ModelRequest(text, system_tokens) ==
    [system_tokens |-> system_tokens,
     truncated |-> Len(Encode(text)) > tokens_disponiveis_para_docs(system_tokens),
     corpus |-> FinalCorpus(text, system_tokens),
     user_prompt |-> prompt_fixo \o FinalCorpus(text, system_tokens) \o prompt_final]

\* ------------------------------------------------------- corpus assembly
\* "=== DADOS DE PLANEJAMENTO ===\n" (line 338); its closing " ===\n" is the atom
\* that also closes every document header, so that str.replace finds the
\* phrase wherever the characters stand.
PlanHeader == <<"=== DADOS DE PLANEJAMENTO", " ===\n">>

\* The lines analyze writes for the fields of planning_json (lines 343-370).
PlanningPreamble ==
    PlanHeader \o <<"Objetivo do Credito: ", "objective", "\n">> \o <<"\n\n">>

DocHeader(category, filename) ==
    <<"\n=== DOCUMENTO (", category, "): ">> \o filename \o <<" ===\n">>

PlaceholderBody == <<"[REGISTRATO - SERA PROCESSADO COM CAMELOT]\n\n">>

Placeholder(filename) == DocHeader("Registro", filename) \o PlaceholderBody

TextBlock(category, filename, text) ==
    DocHeader(category, filename) \o text \o <<"\n\n">>

\* f"{value:.2f}" of an amount in cents.
Money(cents) ==
    LET a == IF cents < 0 THEN 0 - cents ELSE cents IN
    (IF cents < 0 THEN <<"-">> ELSE <<>>)
    \o <<ToString(a \div 100), ".", ToString((a % 100) \div 10), ToString(a % 10)>>

Truthy(x) == x # NoneValue

NotaExtracao == <<"*Nota: Estes valores foram extraidos diretamente das posicoes [2,1] e [2,2] do arquivo SCR.*\n\n">>

\* processed_text when extract_scr_data_from_pdf returned scr (lines 584-610).
ProcessedTextOf(scr, filename) ==
    <<"## Dados SCR: ">> \o filename \o <<"\n\n">>
    \o (IF Truthy(scr.erro) THEN <<"**ERRO**: ">> \o scr.erro \o <<"\n\n">> ELSE <<>>)
    \o <<"### Informacoes da Empresa\n\n", "- **Nome**: ">> \o scr.empresa_nome
    \o <<"\n", "- **CNPJ**: ">> \o scr.empresa_cnpj \o <<"\n\n">>
    \o <<"### Dividas Extraidas\n\n", "- **Divida em dia**: R$ ">> \o Money(scr.divida_em_dia)
    \o <<"\n", "- **Divida vencida**: R$ ">> \o Money(scr.divida_vencida)
    \o <<"\n", "- **Total de dividas**: R$ ">> \o Money(scr.total_dividas) \o <<"\n\n">>
    \o (IF Truthy(scr.planilha_gerada)
        THEN <<"### Arquivo Excel\n\n", "- **Planilha gerada**: ">> \o scr.planilha_gerada \o <<"\n\n">>
        ELSE <<>>)
    \o NotaExtracao

\* processed_text of the two except branches (lines 588-593).
ImportErrorText(filename) ==
    <<"## Erro no Processamento SCR: ">> \o filename
    \o <<"\n\n", "**ERRO**: Nao foi possivel processar o arquivo SCR. Dependencias nao disponiveis.", "\n\n">>
    \o NotaExtracao

ExceptionText(filename) ==
    <<"## Erro no Processamento SCR: ">> \o filename
    \o <<"\n\n", "**ERRO**: ", "erro", "\n\n">> \o NotaExtracao

\* The processed block appended to the corpus, the placeholder deleted.
SubstituteProcessedAppend(text, filename, processed_text) ==
    ReplaceAll(text, Placeholder(filename), <<>>)
    \o DocHeader("Registro", filename) \o processed_text \o <<"\n\n">>

\* Lines 629-632: the placeholder of filename gives way to processed_text.
SubstituteProcessed(text, filename, processed_text) ==
    ReplaceAll(text, Placeholder(filename),
               DocHeader("Registro", filename) \o processed_text \o <<"\n\n">>)

\* Lines 640-643: the placeholder of filename gives way to the error text.
SubstituteError(text, filename) ==
    ReplaceAll(text, Placeholder(filename),
               DocHeader("Registro", filename)
               \o <<"[ERRO AO PROCESSAR REGISTRATO: ", "erro", "]\n\n">>)

\* Lines 540-541.
InsertSegment(text, seg) ==
    ReplaceAll(text, PlanHeader, PlanHeader \o <<"Segmento da Empresa: ", seg, "\n">>)

\* The collaborator answering yes whatever the counter holds.
consumir_relatorio_always(reports_left) ==
    [success |-> TRUE, reports_left |-> reports_left - 1]

\* --------------------------------------------------- payment collaborator
\* consumir_relatorio (stripe_service.py lines 807-834) on the user's counter.
consumir_relatorio(reports_left) ==
    IF reports_left <= 0 THEN [success |-> FALSE, reports_left |-> reports_left]
    ELSE [success |-> TRUE, reports_left |-> reports_left - 1]

\* ------------------------------------------------------------ the uploads
Payload(corrupt, parts, tables, camelot_fails) ==
    [corrupt |-> corrupt, parts |-> parts, tables |-> tables, camelot_fails |-> camelot_fails]

Upload(filename, content_type, payload) ==
    [filename |-> filename, content_type |-> content_type, payload |-> payload]

PDF == "application/pdf"
JPEG == "image/jpeg"
PNG == "image/png"
DOCX == "application/vnd.openxmlformats-officedocument.wordprocessingml.document"

T_invoice == <<"Invoice Jan 2024">>
T_cnae_retail == <<"CNAE principal: ", "4", "7", ".", "5", "1", "-", "2", "/", "0", "1">>
T_cnae_health == <<"principal - ", "8", "6", "-", "1">>
T_scr == <<"Razao Social:", "ACME LTDA", "\n", "CNPJ:", "12.345.678/0001-90", "\n">>

Cell_1234_56 == <<"R", "$", " ", "1", ".", "2", "3", "4", ",", "5", "6">>
Cell_100 == <<"1", "0", "0", ",", "0", "0">>
Cell_dash == <<"-">>
Cell_label == <<"T", "o", "t", "a", "l">>

GridOf(c21, c22) ==
    <<<< <<Cell_label, Cell_label, Cell_label>>,
         <<Cell_label, Cell_label, Cell_label>>,
         <<Cell_label, c21, c22>> >>>>

\* The uploads requests are made of.
Uploads ==
    { Upload(<<"cartao", "_", "cnpj", ".pdf">>, PDF, Payload(FALSE, <<T_cnae_retail>>, <<>>, FALSE)),
      Upload(<<"cartao", "_", "cnpj", ".pdf">>, PDF, Payload(FALSE, <<T_cnae_health>>, <<>>, FALSE)),
      Upload(<<"cartao", "_", "cnpj", ".pdf">>, PDF, Payload(FALSE, <<T_invoice>>, <<>>, FALSE)),
      Upload(<<"cartao", ".jpg">>, JPEG, Payload(FALSE, <<>>, <<>>, FALSE)),
      Upload(<<"REGISTRATO", ".pdf">>, PDF, Payload(FALSE, <<T_scr>>, GridOf(Cell_1234_56, Cell_100), FALSE)),
      Upload(<<"REGISTRATO", ".pdf">>, PDF, Payload(FALSE, <<T_scr>>, <<>>, FALSE)),
      Upload(<<"registrato", "_", "b", ".pdf">>, PDF, Payload(TRUE, <<>>, GridOf(Cell_100, Cell_dash), FALSE)),
      Upload(<<"registrato", "_", "cnpj", ".pdf">>, PDF, Payload(FALSE, <<T_invoice>>, <<>>, FALSE)),
      Upload(<<"contrato", ".docx">>, DOCX, Payload(FALSE, <<T_invoice, <<" ">>, T_invoice>>, <<>>, FALSE)),
      Upload(<<"contrato", ".docx">>, DOCX, Payload(TRUE, <<>>, <<>>, FALSE)),
      Upload(<<"extrato", ".pdf">>, PDF, Payload(TRUE, <<>>, <<>>, FALSE)),
      Upload(<<"extrato", ".pdf">>, PDF, Payload(FALSE, <<<<" ">>>>, <<>>, FALSE)),
      Upload(<<"foto", ".jpg">>, JPEG, Payload(FALSE, <<T_invoice>>, <<>>, FALSE)),
      Upload(<<"foto", ".png">>, PNG, Payload(TRUE, <<>>, <<>>, FALSE)),
      Upload(<<"notas", ".txt">>, "text/plain", Payload(FALSE, <<T_invoice>>, <<>>, FALSE)) }

RECURSIVE SeqsUpTo(_, _)
SeqsUpTo(S, n) ==
    IF n = 0 THEN {<<>>}
    ELSE LET shorter == SeqsUpTo(S, n - 1) IN
         shorter \cup {Append(q, x) : q \in {q \in shorter : Len(q) = n - 1}, x \in S}

\* ---------------------------------------------------------------- analyze
NoResponse == [status |-> 0, detail |-> <<>>]
NoCall == [system_tokens |-> 0, truncated |-> FALSE, corpus |-> <<>>, user_prompt |-> <<>>]
Unbound == [unbound |-> TRUE]

HTTPException(status, detail) == [status |-> status, detail |-> detail]

Event(op, file) == [op |-> op, file |-> file]

\* DocumentWrapper.convert_to_markdown not running, no temporary file on disk.
NoDoc == [extension |-> "", pages |-> 0]

WrapperIdle ==
    /\ temp_files = {}
    /\ wrapper_doc = NoDoc
    /\ wrapper_pc = "idle"
    /\ image_paths = <<>>
    /\ wrapper_result = <<>>

\* No concurrent consumir_relatorio call under way; the counter before the
\* request is the one the request starts with.
CreditIdle ==
    /\ reports_before = reportsLeft
    /\ calls = <<>>

Init ==
    /\ files \in SeqsUpTo(Uploads, MaxFiles)
    /\ planning_data \in {"none", "json", "badjson"}
    /\ \E u \in {<<"none", 0>>, <<"u1", 0>>, <<"u1", 1>>} :
          user_id = u[1] /\ reportsLeft = u[2]
    /\ pc = "start"
    /\ i = 1
    /\ combined_text = <<>>
    /\ processed_files = <<>>
    /\ registrato_files = <<>>
    /\ cartao_cnpj_text = <<>>
    /\ segment = "Outro"
    /\ r = 1
    /\ scr_data = Unbound
    /\ response = NoResponse
    /\ sent = NoCall
    /\ log = <<>>
    /\ WrapperIdle
    /\ CreditIdle

\* Lines 309-377: the empty-request check, the credit gate and the planning
\* preamble.
Start ==
    /\ UNCHANGED <<temp_files, wrapperVars, creditVars>>
    /\ pc = "start"
    /\ UNCHANGED <<files, planning_data, user_id, i, processed_files, registrato_files,
                   cartao_cnpj_text, segment, r, scr_data, sent>>
    /\ IF files = <<>>
       THEN /\ response' = HTTPException(400, <<"Nenhum arquivo enviado.">>)
            /\ pc' = "failed"
            /\ UNCHANGED <<reportsLeft, combined_text, log>>
       ELSE IF user_id # "none" /\ ~consumir_relatorio(reportsLeft).success
       THEN /\ response' = HTTPException(402, <<"Nao ha relatorios disponiveis. Adquira um plano para continuar.">>)
            /\ pc' = "failed"
            /\ log' = Append(log, Event("consumir_relatorio", 0))
            /\ UNCHANGED <<reportsLeft, combined_text>>
       ELSE /\ reportsLeft' = IF user_id # "none"
                              THEN consumir_relatorio(reportsLeft).reports_left
                              ELSE reportsLeft
            /\ log' = IF user_id # "none" THEN Append(log, Event("consumir_relatorio", 0)) ELSE log
            /\ combined_text' = IF planning_data = "json" THEN PlanningPreamble ELSE <<>>
            /\ pc' = "first_pass"
            /\ UNCHANGED response

\* Lines 379-524: one iteration of the first-pass loop, for files[i].
FirstPassStep ==
    /\ UNCHANGED <<temp_files, wrapperVars, creditVars>>
    /\ pc = "first_pass"
    /\ i <= Len(files)
    /\ UNCHANGED <<files, planning_data, user_id, reportsLeft, segment, r, scr_data, sent>>
    /\ LET file == files[i]
           category == Category(file.filename)
           route == Route(file.filename)
           text == extract_text_from_document(file)
           next_pc == IF i = Len(files) THEN "extracted" ELSE "first_pass"
       IN  IF file.content_type \notin supported_types
           THEN /\ response' = HTTPException(400, <<"Arquivo ">> \o file.filename
                                   \o <<" nao e suportado. Formatos aceitos: PDF, JPEG, PNG, DOC, DOCX.">>)
                /\ pc' = "failed"
                /\ UNCHANGED <<i, combined_text, processed_files, registrato_files,
                               cartao_cnpj_text, log>>
           ELSE IF route = "deferred"
           THEN /\ registrato_files' = Append(registrato_files,
                                         [file |-> i, filename |-> file.filename, index |-> i])
                /\ combined_text' = combined_text \o Placeholder(file.filename)
                /\ processed_files' = Append(processed_files,
                       [filename |-> file.filename, status |-> "para_processamento",
                        category |-> category])
                /\ log' = Append(log, Event("classify", i))
                /\ i' = i + 1
                /\ pc' = next_pc
                /\ UNCHANGED <<cartao_cnpj_text, response>>
           ELSE IF text.raised
           THEN /\ response' = HTTPException(400, <<"Erro ao processar ">> \o file.filename
                                   \o <<": ">> \o text.text)
                /\ pc' = "failed"
                /\ log' = log \o <<Event("classify", i), Event("extract", i)>>
                /\ UNCHANGED <<i, combined_text, processed_files, registrato_files,
                               cartao_cnpj_text>>
           ELSE /\ log' = log \o <<Event("classify", i), Event("extract", i)>>
                /\ i' = i + 1
                /\ pc' = next_pc
                /\ UNCHANGED <<registrato_files, response>>
                /\ IF IsBlank(text.text)
                   THEN /\ processed_files' = Append(processed_files,
                               [filename |-> file.filename, status |-> "vazio", text_length |-> 0])
                        /\ UNCHANGED <<combined_text, cartao_cnpj_text>>
                   ELSE /\ cartao_cnpj_text' = IF route = "cnpj"
                                               THEN cartao_cnpj_text \o text.text
                                               ELSE cartao_cnpj_text
                        /\ combined_text' = combined_text
                               \o TextBlock(category, file.filename, text.text)
                        /\ processed_files' = Append(processed_files,
                               [filename |-> file.filename, status |-> "processado",
                                text_length |-> Len(text.text), category |-> category])

\* Lines 526-551: the empty-corpus check and the segment.
AfterFirstPass ==
    /\ UNCHANGED <<temp_files, wrapperVars, creditVars>>
    /\ pc = "extracted"
    /\ UNCHANGED <<files, planning_data, user_id, reportsLeft, i, processed_files,
                   registrato_files, cartao_cnpj_text, r, scr_data, sent, log>>
    /\ IF IsBlank(combined_text)
       THEN /\ response' = HTTPException(400, <<"Nenhum texto foi extraido dos arquivos enviados.">>)
            /\ pc' = "failed"
            /\ UNCHANGED <<combined_text, segment>>
       ELSE /\ segment' = IF cartao_cnpj_text # <<>>
                          THEN extrair_segmento_do_cnae(cartao_cnpj_text)
                          ELSE "Outro"
            /\ combined_text' = IF cartao_cnpj_text # <<>>
                                THEN InsertSegment(combined_text, segment')
                                ELSE combined_text
            /\ pc' = "second_pass"
            /\ UNCHANGED response

\* The second pass also running on what the first pass has queued so far.
SecondPassEnabledEarly == pc \in {"first_pass", "second_pass"}

\* The second pass runs where the first one has ended (line 553).
SecondPassEnabled == pc = "second_pass"

\* What reading and importing can do in one iteration of the second pass:
\* file.seek/file.read raise or not, and `from app.utils import ...` succeeds,
\* raises ImportError or raises something else.
DeferredOutcomes == {"read_error", "ok", "ImportError", "Exception"}

\* Lines 563-643: one iteration of the second-pass loop, for
\* registrato_files[r].
DeferredStep ==
    /\ UNCHANGED <<wrapperVars, creditVars>>
    /\ SecondPassEnabled
    /\ r <= Len(registrato_files)
    /\ UNCHANGED <<files, planning_data, user_id, reportsLeft, pc, i, processed_files,
                   registrato_files, cartao_cnpj_text, segment, response, sent>>
    /\ r' = r + 1
    /\ \E outcome \in DeferredOutcomes :
         LET registrato == registrato_files[r]
             filename == registrato.filename
             file_content == files[registrato.file].payload
             scr == extract_scr_data_from_pdf(file_content, filename)
             processed_text == CASE outcome = "ok" -> ProcessedTextOf(scr, filename)
                                 [] outcome = "ImportError" -> ImportErrorText(filename)
                                 [] OTHER -> ExceptionText(filename)
         IN  IF outcome = "read_error"
             THEN /\ combined_text' = SubstituteError(combined_text, filename)
                  /\ log' = log \o <<Event("registrato", registrato.file),
                                      Event("read_error", registrato.file)>>
                  /\ UNCHANGED <<scr_data, temp_files>>
             ELSE /\ scr_data' = IF outcome = "ok" THEN scr ELSE scr_data
                  /\ temp_files' = IF outcome = "ok"
                                   THEN temp_files \cup TempFilesLeft(file_content, registrato.file)
                                   ELSE temp_files
                  /\ log' = log \o <<Event("registrato", registrato.file),
                                      Event(IF outcome = "ok" THEN "scr" ELSE outcome,
                                            registrato.file)>>
                  \* line 613 reads scr_data, unbound if no call has returned yet
                  /\ combined_text' = IF scr_data' = Unbound
                                      THEN SubstituteError(combined_text, filename)
                                      ELSE SubstituteProcessed(combined_text, filename, processed_text)

\* The system prompt is read from a file at each call: its token count.
SystemTokenChoices ==
    {100} \cup {LIMITE_PROMPT - fixed_tokens - a : a \in {-1, 0, 4, 9}}

\* The model call attempted again after an error of the analysis model.
CallOpenAI_Retry ==
    /\ UNCHANGED <<temp_files, wrapperVars, creditVars>>
    /\ pc = "second_pass"
    /\ r > Len(registrato_files)
    /\ UNCHANGED <<files, planning_data, user_id, reportsLeft, i, combined_text,
                   processed_files, registrato_files, cartao_cnpj_text, segment, r, scr_data>>
    /\ \E client \in {"none", "ok", "error"}, system_tokens \in SystemTokenChoices :
         IF client = "none"
         THEN /\ system_tokens = 100
              /\ response' = HTTPException(500, <<"Cliente OpenAI nao esta configurado. Verifique a OPENAI_API_KEY.">>)
              /\ pc' = "failed"
              /\ UNCHANGED <<sent, log>>
         ELSE /\ sent' = ModelRequest(combined_text, system_tokens)
              /\ log' = Append(log, Event("openai", 0))
              /\ IF client = "error"
                 THEN UNCHANGED <<response, pc>>
                 ELSE /\ response' = HTTPException(200, <<"analysis">>)
                      /\ pc' = "done"

\* Lines 671-724: the model call and the response.
CallOpenAI ==
    /\ UNCHANGED <<temp_files, wrapperVars, creditVars>>
    /\ pc = "second_pass"
    /\ r > Len(registrato_files)
    /\ UNCHANGED <<files, planning_data, user_id, reportsLeft, i, combined_text,
                   processed_files, registrato_files, cartao_cnpj_text, segment, r, scr_data>>
    /\ \E client \in {"none", "ok", "error"}, system_tokens \in SystemTokenChoices :
         IF client = "none"
         THEN /\ system_tokens = 100
              /\ response' = HTTPException(500, <<"Cliente OpenAI nao esta configurado. Verifique a OPENAI_API_KEY.">>)
              /\ pc' = "failed"
              /\ UNCHANGED <<sent, log>>
         ELSE /\ sent' = ModelRequest(combined_text, system_tokens)
              /\ log' = Append(log, Event("openai", 0))
              /\ IF client = "error"
                 THEN /\ response' = HTTPException(500, <<"Erro ao processar analise: ", "erro">>)
                      /\ pc' = "failed"
                 ELSE /\ response' = HTTPException(200, <<"analysis">>)
                      /\ pc' = "done"

Next == Start \/ FirstPassStep \/ AfterFirstPass \/ DeferredStep \/ CallOpenAI

Spec == Init /\ [][Next]_vars

\* ------------------------------------------- requests of one file, any name
MaxWords == 2

Words ==
    {"cnpj", "cartao", "registrato", "REGISTRATO", "imposto", "irpf", "registro",
     "contrato", "fiscal", "faturamento", "gerencial", "spc", "serasa",
     "demonstrativo", "extrato", "doc"}

FileNames == SeqsUpTo(Words, MaxWords) \ {<<>>}

InitNames ==
    /\ \E name \in FileNames :
          files = <<Upload(name, PDF,
                           Payload(FALSE, <<T_invoice>>, GridOf(Cell_1234_56, Cell_100), FALSE))>>
    /\ planning_data = "none"
    /\ user_id = "none"
    /\ reportsLeft = 0
    /\ pc = "start"
    /\ i = 1
    /\ combined_text = <<>>
    /\ processed_files = <<>>
    /\ registrato_files = <<>>
    /\ cartao_cnpj_text = <<>>
    /\ segment = "Outro"
    /\ r = 1
    /\ scr_data = Unbound
    /\ response = NoResponse
    /\ sent = NoCall
    /\ log = <<>>
    /\ WrapperIdle
    /\ CreditIdle

SpecNames == InitNames /\ [][Next]_vars

\* ------------------------------------------------ reading the corpus back
HeaderOpen == "\n=== DOCUMENTO ("
HeaderClose == " ===\n"

Indices(s) == [k \in 1..Len(s) |-> k]

HeaderPositions(text) == SelectSeq(Indices(text), LAMBDA k : text[k] = HeaderOpen)

\* Position of the atom that closes the header opened at k.
HeaderEnd(text, k) ==
    CHOOSE e \in k..Len(text) :
        text[e] = HeaderClose /\ \A m \in k..(e - 1) : text[m] # HeaderClose

\* <<category, filename>> of every document header of text, in order.
DocHeadersOf(text) ==
    LET at == HeaderPositions(text) IN
    [n \in 1..Len(at) |-> <<text[at[n] + 1], SubSeq(text, at[n] + 3, HeaderEnd(text, at[n]) - 1)>>]

\* The uploads that get a block: deferred ones, and those with text.
HasBlock(file) ==
    /\ file.content_type \in supported_types
    /\ Route(file.filename) = "deferred" \/ ~IsBlank(extract_text_from_document(file).text)

ExpectedHeaders ==
    LET with == SelectSeq(Indices(files), LAMBDA k : HasBlock(files[k])) IN
    [n \in 1..Len(with) |-> <<Category(files[with[n]].filename), files[with[n]].filename>>]

\* The body of the block of files[k] in text: what stands between its header
\* (the n-th one, k being the n-th upload with a block) and the next header.
BodyOfDoc(text, k) ==
    LET n == Cardinality({j \in 1..k : HasBlock(files[j])})
        at == HeaderPositions(text)
        from == HeaderEnd(text, at[n]) + 1
        to == IF n < Len(at) THEN at[n + 1] - 1 ELSE Len(text)
    IN  SubSeq(text, from, to)

InLog(op, k) == \E n \in 1..Len(log) : log[n] = Event(op, k)

Called == sent # NoCall

\* --------------------------------------------------------------- claims
\* C1: when analyze_with_openai truncates, tokens(system prompt) +
\* tokens(fixed preamble + suffix) + tokens(final corpus with the marker) is
\* at most LIMITE_PROMPT, and the final corpus ends with the marker.
C1_TruncatedPromptWithinBudget ==
    (Called /\ sent.truncated) =>
        /\ sent.system_tokens + fixed_tokens + Len(Encode(sent.corpus)) <= LIMITE_PROMPT
        /\ EndsWith(sent.corpus, TruncationMarker)

\* C2: the record extract_scr_data_from_pdf returns has total_dividas =
\* divida_em_dia + divida_vencida, on every return path.
C2_TotalIsSum ==
    scr_data # Unbound =>
        scr_data.total_dividas = scr_data.divida_em_dia + scr_data.divida_vencida

\* Upload k has been through the loop body and was queued for the second
\* pass as 'Registro', without text extraction.
DeferredAsRegistro(k) ==
    /\ processed_files[k].status = "para_processamento"
    /\ processed_files[k].category = "Registro"
    /\ \E n \in 1..Len(registrato_files) : registrato_files[n].file = k
    /\ ~InLog("extract", k)

\* C3 as stated: every filename that contains "registrato" (in any case),
\* whatever else it contains, is categorised 'Registro' and deferred.
C3_RegistratoAlwaysDeferred ==
    \A k \in 1..Len(processed_files) :
        Contains("registrato", LowerName(files[k].filename)) => DeferredAsRegistro(k)

\* C3 amended: every filename that contains "registrato" (in any case) and
\* neither "cnpj" nor "cartao", whatever else it contains, is categorised
\* 'Registro' and deferred.
C3_RegistratoDeferredUnlessCard ==
    \A k \in 1..Len(processed_files) :
        ( /\ Contains("registrato", LowerName(files[k].filename))
          /\ ~Contains("cnpj", LowerName(files[k].filename))
          /\ ~Contains("cartao", LowerName(files[k].filename)) )
        => DeferredAsRegistro(k)

C3_Witness ==
    /\ pc = "done"
    /\ files[1].filename = <<"REGISTRATO", "imposto">>
    /\ DeferredAsRegistro(1)

\* C4: when some file of the request has a content type outside the
\* allow-list, the request does not succeed and no file of it is classified
\* or extracted.
C4_RejectedBeforeAnyWork ==
    (\E k \in 1..Len(files) : files[k].content_type \notin supported_types) =>
        /\ pc # "done"
        /\ \A n \in 1..Len(log) : log[n].op \notin {"classify", "extract"}

\* C5: no text extraction happens after the second pass has started on any
\* deferred document.
C5_DeferredAfterEveryExtraction ==
    \A p \in 1..Len(log), q \in 1..Len(log) :
        (p < q /\ log[p].op \in {"registrato", "scr"}) => log[q].op # "extract"

C5_Witness ==
    /\ pc = "done"
    /\ Len(files) = 2
    /\ InLog("scr", 1)
    /\ InLog("extract", 2)

\* C6: from the start of the second pass on, the document headers of the
\* corpus are those of the uploads that have a block, in upload order, and
\* the planning preamble, when there is one, comes first.
C6_CorpusInUploadOrder ==
    (pc \in {"second_pass", "done"} \/ Called) =>
        /\ DocHeadersOf(combined_text) = ExpectedHeaders
        /\ planning_data = "json" => Prefix(combined_text, Len(PlanHeader)) = PlanHeader

C6_Witness ==
    /\ pc = "done"
    /\ planning_data = "json"
    /\ Len(files) = 2
    /\ InLog("scr", 1)
    /\ InLog("extract", 2)
    /\ Len(DocHeadersOf(combined_text)) = 2

\* The extraction of this upload raises: a corrupt PDF or Word file.
RaisesOnExtract(file) ==
    file.payload.corrupt /\ file.content_type \notin {"image/jpeg", "image/png"}

\* C7: once the extraction of document k has raised, the request has failed
\* with an error whose detail holds the filename of k, nothing was called
\* after that extraction, and the model was not called.
C7_ExtractionErrorFailsFast ==
    \A n \in 1..Len(log) :
        (log[n].op = "extract" /\ RaisesOnExtract(files[log[n].file])) =>
            /\ pc = "failed"
            /\ response.status = 400
            /\ Occurs(files[log[n].file].filename, response.detail)
            /\ n = Len(log)
            /\ ~Called
            /\ \A m \in 1..Len(log) : log[m].op \notin {"registrato", "scr", "openai"}

C7_Witness ==
    /\ pc = "failed"
    /\ Len(files) = 2
    /\ registrato_files # <<>>
    /\ InLog("extract", 2)
    /\ RaisesOnExtract(files[2])

\* OCR fails on this upload.
OcrFails(file) ==
    file.payload.corrupt /\ file.content_type \in {"image/jpeg", "image/png"}

ErrorAtoms ==
    {"[ERRO AO PROCESSAR REGISTRATO: ", "## Erro no Processamento SCR: ", "**ERRO**: "}

HasErrorText(body) == \E n \in 1..Len(body) : body[n] \in ErrorAtoms

\* C9: a failure of the second pass on a deferred document never fails the
\* request (only the model call can still fail it), the block of that
\* document holds an error text, and by the time the model is called every
\* deferred document has been processed.
C9_DeferredFailureIsLocal ==
    /\ \A n \in 1..Len(log) :
          log[n].op \in {"read_error", "ImportError", "Exception"} =>
              /\ pc = "failed" => response.status = 500
              /\ HasErrorText(BodyOfDoc(combined_text, log[n].file))
    /\ Called => \A n \in 1..Len(registrato_files) :
                      InLog("registrato", registrato_files[n].file)

\* The text of the first CNPJ-card upload that has text, <<>> if none.
FirstCnpjText ==
    LET cards == {k \in 1..Len(files) :
                     /\ files[k].content_type \in supported_types
                     /\ Route(files[k].filename) = "cnpj"
                     /\ ~IsBlank(extract_text_from_document(files[k]).text)}
    IN  IF cards = {} THEN <<>>
        ELSE extract_text_from_document(
                 files[CHOOSE k \in cards : \A m \in cards : k <= m]).text

\* C10: the segment is the one of the text of the first CNPJ-card document
\* alone, 'Outro' when there is none.
C10_SegmentFromFirstCardOnly ==
    (pc \in {"second_pass", "done"} \/ Called) =>
        segment = (IF FirstCnpjText = <<>> THEN "Outro"
                   ELSE extrair_segmento_do_cnae(FirstCnpjText))

\* ------------------------------------- requests of one CNPJ card, any code
\* The label phrases a CNPJ card may carry before its code; the last one is
\* matched by no pattern of padroes_cnae.
CnaeLabels ==
    {"CNAE principal: ", "atividade economica principal: ",
     "CODIGO E DESCRICAO DA ATIVIDADE ECONOMICA PRINCIPAL : ",
     "CODIGO E DESCRICAO DA ATIVIDADE ECONOMICA PRINCIPAL\n", "principal - ",
     "CNAE secundario: "}

\* Card texts: a label and a code of every division 00..99 ("NN-N", "NN.N"),
\* a code whose first run has one digit ("N.N"), and two digits without
\* the separator a code needs.
CnaeTexts ==
    {<<l, a, b, s, "1">> : l \in CnaeLabels, a \in Digits, b \in Digits, s \in {"-", "."}}
    \cup {<<l, a, ".", b>> : l \in CnaeLabels, a \in Digits, b \in Digits}
    \cup {<<l, a, b>> : l \in CnaeLabels, a \in Digits, b \in Digits}

InitCnae ==
    /\ \E texto \in CnaeTexts :
          files = <<Upload(<<"cartao", "_", "cnpj", ".pdf">>, PDF,
                           Payload(FALSE, <<texto>>, <<>>, FALSE)),
                    Upload(<<"REGISTRATO", ".pdf">>, PDF,
                           Payload(FALSE, <<T_scr>>, GridOf(Cell_1234_56, Cell_100), FALSE))>>
    /\ planning_data = "json"
    /\ user_id = "none"
    /\ reportsLeft = 0
    /\ pc = "start"
    /\ i = 1
    /\ combined_text = <<>>
    /\ processed_files = <<>>
    /\ registrato_files = <<>>
    /\ cartao_cnpj_text = <<>>
    /\ segment = "Outro"
    /\ r = 1
    /\ scr_data = Unbound
    /\ response = NoResponse
    /\ sent = NoCall
    /\ log = <<>>
    /\ WrapperIdle
    /\ CreditIdle

SpecCnae == InitCnae /\ [][Next]_vars

\* The segment has been derived (lines 532-544 have run).
SegmentDerived == pc \in {"second_pass", "done"} \/ Called

\* The card text of a SpecCnae request, its label and the digits of its code.
CardText == files[1].payload.parts[1]

CardCodeMatches ==
    /\ CardText[1] # "CNAE secundario: "
    /\ \E k \in 3..(Len(CardText) - 1) : CardText[k] \in {"-", "."}

CardDivision ==
    LET ds == SelectSeq(CardText, LAMBDA a : a \in Digits) IN
    IntOfDigits(SubSeq(ds, 1, 2))

\* The table of the claim: one label per division number.
C11_Label(d) ==
    CASE d \in 5..33 -> "Industria"
      [] d \in 45..47 -> "Varejo"
      [] d \in 58..63 \cup {72} -> "Tecnologia"
      [] d = 85 -> "Educacao"
      [] d \in 86..88 -> "Saude"
      [] OTHER -> "Servicos"

\* C11: the division number d (leading two digits of the matched code) gets
\* Industry for 5..33, Retail for 45..47, Technology for 58..63 and 72,
\* Education for 85, Health for 86..88 and Services for every other d of
\* 0..99; the result is 'Outro' if and only if no pattern matches the text.
C11_DivisionTable ==
    SegmentDerived =>
        /\ CardCodeMatches => segment = C11_Label(CardDivision)
        /\ (segment = "Outro") <=> ~CardCodeMatches

C11_Witness ==
    /\ SegmentDerived
    /\ CardCodeMatches
    /\ CardDivision = 85
    /\ segment = "Educacao"

\* The ordered predicate list of the claim: a rule matches a name that holds
\* one of its `any` keywords and all of its `all` keywords.
C12_Rules ==
    << [any |-> {"cnpj", "cartao"}, all |-> {}, label |-> "Cartao CNPJ", deferred |-> FALSE],
       [any |-> {"registrato"}, all |-> {}, label |-> "Registro", deferred |-> TRUE],
       [any |-> {"imposto", "irpf"}, all |-> {}, label |-> "Imposto de Renda", deferred |-> FALSE],
       [any |-> {"registro", "contrato"}, all |-> {}, label |-> "Registro", deferred |-> FALSE],
       [any |-> {"fiscal"}, all |-> {}, label |-> "Situacao Fiscal", deferred |-> FALSE],
       [any |-> {"faturamento"}, all |-> {"gerencial"}, label |-> "Faturamento Gerencial", deferred |-> FALSE],
       [any |-> {"faturamento"}, all |-> {}, label |-> "Faturamento Fiscal", deferred |-> FALSE],
       [any |-> {"spc", "serasa"}, all |-> {}, label |-> "SPC e Serasa", deferred |-> FALSE],
       [any |-> {"demonstrativo", "extrato"}, all |-> {}, label |-> "Demonstrativo", deferred |-> FALSE] >>

C12_Matches(rule, lowered) ==
    /\ \E kw \in rule.any : Contains(kw, lowered)
    /\ \A kw \in rule.all : Contains(kw, lowered)

C12_FirstMatch(lowered) ==
    LET hits == {n \in 1..Len(C12_Rules) : C12_Matches(C12_Rules[n], lowered)} IN
    IF hits = {} THEN [label |-> "Documento Adicional", deferred |-> FALSE]
    ELSE LET first == C12_Rules[CHOOSE n \in hits : \A m \in hits : n <= m] IN
         [label |-> first.label, deferred |-> first.deferred]

\* C12: every filename gets exactly the category of the first predicate that
\* matches in the order cnpj/cartao, registrato (deferred), imposto/irpf,
\* registro/contrato, fiscal, faturamento+gerencial, faturamento, spc/serasa,
\* demonstrativo/extrato, otherwise Additional Document; a name with both
\* "contrato" and "fiscal" is Registration.
C12_FirstMatchWins ==
    \A k \in 1..Len(processed_files) :
        LET expected == C12_FirstMatch(LowerName(files[k].filename)) IN
        /\ processed_files[k].category = expected.label
        /\ (processed_files[k].status = "para_processamento") <=> expected.deferred
        /\ (Contains("contrato", files[k].filename) /\ Contains("fiscal", files[k].filename)
            /\ expected.label # "Cartao CNPJ" /\ ~expected.deferred
            /\ ~Contains("imposto", files[k].filename) /\ ~Contains("irpf", files[k].filename))
               => processed_files[k].category = "Registro"

C12_Witness ==
    /\ Len(processed_files) = 1
    /\ files[1].filename = <<"fiscal", "contrato">>
    /\ processed_files[1].category = "Registro"
    /\ processed_files[1].status = "processado"

\* C13: a filename is Tax Status only when it contains "fiscal" and not
\* "faturamento"; one with both "faturamento" and "fiscal" and no
\* earlier-priority keyword is Tax Billing, or Management Billing when it
\* also contains "gerencial".
C13_FiscalYieldsToFaturamento ==
    \A k \in 1..Len(processed_files) :
        LET name == LowerName(files[k].filename)
            earlier == \E kw \in {"cnpj", "cartao", "registrato", "imposto", "irpf",
                                  "registro", "contrato"} : Contains(kw, name)
        IN  /\ processed_files[k].category = "Situacao Fiscal"
                 => Contains("fiscal", name) /\ ~Contains("faturamento", name)
            /\ (Contains("fiscal", name) /\ Contains("faturamento", name) /\ ~earlier)
                 => processed_files[k].category =
                        (IF Contains("gerencial", name) THEN "Faturamento Gerencial"
                         ELSE "Faturamento Fiscal")

\* --------------------------- requests of one registrato, any detected grid
MaxRows == 4
MaxCols == 4

Cell_plain_1234_56 == <<"1", ".", "2", "3", "4", ",", "5", "6">>
Cell_empty == <<>>
Cell_commas == <<"1", ",", "2", ",", "3">>

\* What the two debt cells may hold.
DebtCells ==
    {Cell_1234_56, Cell_plain_1234_56, Cell_100, Cell_dash, Cell_label, Cell_empty, Cell_commas}

\* One detected table of rows x cols cells, c21 at (row 2, column 1) and c22
\* at (row 2, column 2), 0-based, where the table has them.
Table(rows, cols, c21, c22) ==
    [rr \in 1..rows |->
        [cc \in 1..cols |-> IF rr = 3 /\ cc = 2 THEN c21
                            ELSE IF rr = 3 /\ cc = 3 THEN c22
                            ELSE Cell_label]]

\* What camelot detects: one table of any shape up to MaxRows x MaxCols, or
\* the same grid split after its second row into two tables, the lower one
\* holding only the first column (pd.concat then fills the rest with NaN).
DetectedTables ==
    {<<Table(rows, cols, c21, c22)>> :
        rows \in 0..MaxRows, cols \in 0..MaxCols, c21 \in DebtCells, c22 \in DebtCells}
    \cup {<<Table(2, cols, Cell_label, Cell_label), Table(rows, 1, Cell_label, Cell_label)>> :
             rows \in 1..(MaxRows - 2), cols \in 2..MaxCols}

InitGrids ==
    /\ \E tables \in DetectedTables, corrupt \in BOOLEAN, camelot_fails \in BOOLEAN :
          files = <<Upload(<<"REGISTRATO", ".pdf">>, PDF,
                           Payload(corrupt, <<T_scr>>, tables, camelot_fails))>>
    /\ planning_data = "none"
    /\ user_id = "none"
    /\ reportsLeft = 0
    /\ pc = "start"
    /\ i = 1
    /\ combined_text = <<>>
    /\ processed_files = <<>>
    /\ registrato_files = <<>>
    /\ cartao_cnpj_text = <<>>
    /\ segment = "Outro"
    /\ r = 1
    /\ scr_data = Unbound
    /\ response = NoResponse
    /\ sent = NoCall
    /\ log = <<>>
    /\ WrapperIdle
    /\ CreditIdle

SpecGrids == InitGrids /\ [][Next]_vars

\* extract_scr_data_from_pdf has returned for the upload of a SpecGrids request.
ScrReturned == InLog("scr", 1)

\* The positional grid of a SpecGrids request as the claims see it: camelot
\* raised or no detected table has a cell.
GridPayload == files[1].payload

GridIsEmpty ==
    \/ GridPayload.camelot_fails
    \/ \A t \in 1..Len(GridPayload.tables) :
          \A rr \in 1..Len(GridPayload.tables[t]) : GridPayload.tables[t][rr] = <<>>

\* C14: extract_scr_data_from_pdf returns a record with divida_em_dia,
\* divida_vencida, total_dividas, empresa_nome, empresa_cnpj and erro for any
\* PDF; when the grid is empty, erro is non-null and the three debt values
\* are 0.0.
C14_AlwaysFullRecord ==
    ScrReturned =>
        /\ {"divida_em_dia", "divida_vencida", "total_dividas",
            "empresa_nome", "empresa_cnpj", "erro"} \subseteq DOMAIN scr_data
        /\ GridIsEmpty =>
              /\ scr_data.erro # NoneValue
              /\ scr_data.divida_em_dia = 0
              /\ scr_data.divida_vencida = 0
              /\ scr_data.total_dividas = 0

C14_Witness ==
    /\ ScrReturned
    /\ GridIsEmpty
    /\ ~GridPayload.camelot_fails
    /\ GridPayload.tables[1] # <<>>
    /\ scr_data.erro # NoneValue

\* The shape of the positional grid of a SpecGrids request and its cells, as
\* the detected tables stacked in detection order give them.
GridRows ==
    IF GridPayload.camelot_fails THEN 0
    ELSE Len(Flatten(GridPayload.tables))

GridCols ==
    IF GridPayload.camelot_fails \/ GridRows = 0 THEN 0
    ELSE LET rows == Flatten(GridPayload.tables) IN
         CHOOSE w \in 0..(MaxCols + 1) :
            /\ \E rr \in 1..Len(rows) : Len(rows[rr]) = w
            /\ \A rr \in 1..Len(rows) : Len(rows[rr]) <= w

\* The cell at (row, col), 0-based; Cell_empty where the detected table of
\* that row has no such column.
GridCell(row, col) ==
    LET rows == Flatten(GridPayload.tables) IN
    IF col + 1 <= Len(rows[row + 1]) THEN rows[row + 1][col + 1] ELSE Cell_empty

\* The cells whose cleaned text is not a number.
Unparsable == {Cell_dash, Cell_commas}

\* The amount, in cents, the normalisation is said to give for a cell.
C15_Value(cell) ==
    CASE cell \in {Cell_1234_56, Cell_plain_1234_56} -> 123456
      [] cell = Cell_100 -> 10000
      [] OTHER -> 0

\* C15: the cell normalisation yields 1234.56 for "1.234,56" and 0.0 for an
\* empty cell or a cell whose cleaned text does not parse, and the extractor
\* still returns (for the second cell: whenever the normalisation gets to it).
C15_BrazilianCellValue ==
    (ScrReturned /\ GridRows >= 3) =>
        /\ GridCols >= 2 => scr_data.divida_em_dia = C15_Value(GridCell(2, 1))
        /\ (GridCols >= 3 /\ GridCell(2, 1) \notin Unparsable)
              => scr_data.divida_vencida = C15_Value(GridCell(2, 2))

C15_Witness ==
    /\ ScrReturned
    /\ GridRows >= 3 /\ GridCols >= 3
    /\ GridCell(2, 1) = Cell_plain_1234_56
    /\ GridCell(2, 2) = Cell_commas
    /\ scr_data.divida_em_dia = 123456
    /\ scr_data.divida_vencida = 0

\* C17: when pdf_para_dataframe has returned, on whatever path, the
\* temporary PDF copy it created no longer exists.
C17_TempPdfReleased ==
    ScrReturned => \A f \in temp_files : f.kind # "pdf_copy"

\* C20: debt_current is read from cell (2,1) exactly when the grid has at
\* least 3 rows and 2 columns and debt_overdue from cell (2,2) exactly when
\* it has at least 3 rows and 3 columns; a field without cell is 0.0 and a
\* field whose cell is present is read.
C20_CellsReadByShape ==
    ScrReturned =>
        /\ scr_data.divida_em_dia =
              (IF GridRows >= 3 /\ GridCols >= 2 THEN C15_Value(GridCell(2, 1)) ELSE 0)
        /\ scr_data.divida_vencida =
              (IF GridRows >= 3 /\ GridCols >= 3 THEN C15_Value(GridCell(2, 2)) ELSE 0)

\* The same for the grids whose cell (2,1) parses.
C20_CellsReadByShapeWhenFirstParses ==
    (ScrReturned /\ ~(GridRows >= 3 /\ GridCols >= 2 /\ GridCell(2, 1) \in Unparsable))
        => C20_CellsReadByShape

Attempts == {"extract", "registrato", "scr", "read_error", "ImportError", "Exception", "openai"}

\* C19: within one request each standard-route extraction, each deferred
\* structured extraction and the model call is attempted at most once, and
\* nothing is attempted again after a failure (a failed or completed request
\* takes no further step).
C19_EveryOperationOnce ==
    /\ [](\A m \in 1..Len(log), n \in 1..Len(log) :
             (m # n /\ log[m].op \in Attempts) => log[m] # log[n])
    /\ [][pc \notin {"failed", "done"}]_vars

C19_Witness ==
    /\ pc = "failed"
    /\ InLog("extract", 1)
    /\ InLog("Exception", 2)
    /\ InLog("openai", 0)

\* ------------------- DocumentWrapper.convert_to_markdown, the vision path
\* (docling_wrapper.py lines 110-216). The files it puts on disk are records
\* of temp_files: the temporary PDF copy, the image of page n of a PDF
\* ("doc_page", doc_page_<id>_<n>.png) and the image a non-PDF input is
\* written to ("doc_image").
MaxPages == 3

PdfCopy == [kind |-> "pdf_copy", owner |-> 0]
DocPage(n) == [kind |-> "doc_page", owner |-> n]
DocImage == [kind |-> "doc_image", owner |-> 0]

WrapperDocs ==
    {[extension |-> ".pdf", pages |-> n] : n \in 0..MaxPages}
    \cup {[extension |-> e, pages |-> 1] : e \in {".png", ".jpg", ""}}

InitVision ==
    /\ files = <<>>
    /\ planning_data = "none"
    /\ user_id = "none"
    /\ reportsLeft = 0
    /\ pc = "start"
    /\ i = 1
    /\ combined_text = <<>>
    /\ processed_files = <<>>
    /\ registrato_files = <<>>
    /\ cartao_cnpj_text = <<>>
    /\ segment = "Outro"
    /\ r = 1
    /\ scr_data = Unbound
    /\ response = NoResponse
    /\ sent = NoCall
    /\ log = <<>>
    /\ temp_files = {}
    /\ wrapper_doc \in WrapperDocs
    /\ wrapper_pc = "idle"
    /\ image_paths = <<>>
    /\ wrapper_result = <<>>
    /\ CreditIdle

\* What the except of line 203 does: it deletes the files of image_paths
\* that exist and returns the error text.
CleanupAfter(erro) ==
    /\ wrapper_pc' = "cleanup_error"
    /\ wrapper_result' = <<"[ERRO NO PROCESSAMENTO DA IMAGEM: ", erro, "]">>

\* Lines 110-126: initialize(), then the temporary copy of a PDF input.
ConvertBegin ==
    /\ wrapper_pc = "idle"
    /\ UNCHANGED <<analyzeVars, creditVars, wrapper_doc, image_paths>>
    /\ \E initialized \in BOOLEAN, copied \in BOOLEAN :
         IF ~initialized
         THEN /\ copied
              /\ wrapper_result' = <<"[ERRO: DocumentWrapper nao pode ser inicializado]">>
              /\ wrapper_pc' = "returned"
              /\ UNCHANGED temp_files
         ELSE IF wrapper_doc.extension = ".pdf"
         THEN IF copied
              THEN /\ temp_files' = temp_files \cup {PdfCopy}
                   /\ wrapper_pc' = "render"
                   /\ UNCHANGED wrapper_result
              ELSE /\ CleanupAfter("tempfile")
                   /\ UNCHANGED temp_files
         ELSE /\ copied
              /\ wrapper_pc' = "write_image"
              /\ UNCHANGED <<temp_files, wrapper_result>>

\* Lines 128-130: pdf2image.convert_from_path renders the pages or raises.
RenderPdf ==
    /\ wrapper_pc = "render"
    /\ UNCHANGED <<analyzeVars, creditVars, wrapper_doc, image_paths, temp_files>>
    /\ \E rendered \in BOOLEAN :
         IF rendered
         THEN wrapper_pc' = "save" /\ UNCHANGED wrapper_result
         ELSE CleanupAfter("convert_from_path")

\* Lines 132-140: one iteration of the loop that saves the pages, or, after
\* the last page, the removal of the PDF copy. img.save opens img_path for
\* writing before it encodes: when it raises, the file is on disk or not
\* (PIL removes a file it created, older releases leave it), and the path has
\* not been appended to image_paths.
SavePage ==
    /\ wrapper_pc = "save"
    /\ UNCHANGED <<analyzeVars, creditVars, wrapper_doc>>
    /\ LET n == Len(image_paths) IN
       IF n < wrapper_doc.pages
       THEN \E saved \in BOOLEAN, left \in BOOLEAN :
              IF saved
              THEN /\ left
                   /\ temp_files' = temp_files \cup {DocPage(n)}
                   /\ image_paths' = Append(image_paths, DocPage(n))
                   /\ UNCHANGED <<wrapper_pc, wrapper_result>>
              ELSE /\ temp_files' = IF left THEN temp_files \cup {DocPage(n)} ELSE temp_files
                   /\ CleanupAfter("save")
                   /\ UNCHANGED image_paths
       ELSE /\ temp_files' = temp_files \ {PdfCopy}
            /\ wrapper_pc' = "encode"
            /\ UNCHANGED <<image_paths, wrapper_result>>

\* Lines 141-147: a non-PDF input is written to doc_image_<id><ext>; open()
\* creates the file, write() may then raise, and the path is appended only
\* after the with block.
WriteImage ==
    /\ wrapper_pc = "write_image"
    /\ UNCHANGED <<analyzeVars, creditVars, wrapper_doc>>
    /\ \E outcome \in {"written", "open_raises", "write_raises"} :
         CASE outcome = "written" ->
                /\ temp_files' = temp_files \cup {DocImage}
                /\ image_paths' = Append(image_paths, DocImage)
                /\ wrapper_pc' = "encode"
                /\ UNCHANGED wrapper_result
           [] outcome = "open_raises" ->
                /\ CleanupAfter("open")
                /\ UNCHANGED <<temp_files, image_paths>>
           [] outcome = "write_raises" ->
                /\ temp_files' = temp_files \cup {DocImage}
                /\ CleanupAfter("write")
                /\ UNCHANGED image_paths

\* Lines 149-156: the images are read back and base64-encoded.
EncodeImages ==
    /\ wrapper_pc = "encode"
    /\ UNCHANGED <<analyzeVars, creditVars, wrapper_doc, image_paths, temp_files>>
    /\ \E encoded \in BOOLEAN :
         IF encoded
         THEN wrapper_pc' = "call" /\ UNCHANGED wrapper_result
         ELSE CleanupAfter("read")

\* Lines 158-193: the vision-model call.
CallVision ==
    /\ wrapper_pc = "call"
    /\ UNCHANGED <<analyzeVars, creditVars, wrapper_doc, image_paths, temp_files>>
    /\ \E answered \in BOOLEAN :
         IF answered
         THEN /\ wrapper_pc' = "cleanup"
              /\ wrapper_result' = <<"processed_text">>
         ELSE CleanupAfter("openai")

\* Lines 195-201: the images of image_paths are deleted, the text returned.
CleanupSuccess ==
    /\ wrapper_pc = "cleanup"
    /\ UNCHANGED <<analyzeVars, creditVars, wrapper_doc, image_paths, wrapper_result>>
    /\ temp_files' = temp_files \ {image_paths[n] : n \in 1..Len(image_paths)}
    /\ wrapper_pc' = "returned"

\* Lines 203-212: the same deletion on the error path.
CleanupError ==
    /\ wrapper_pc = "cleanup_error"
    /\ UNCHANGED <<analyzeVars, creditVars, wrapper_doc, image_paths, wrapper_result>>
    /\ temp_files' = temp_files \ {image_paths[n] : n \in 1..Len(image_paths)}
    /\ wrapper_pc' = "returned"

NextVision ==
    \/ ConvertBegin \/ RenderPdf \/ SavePage \/ WriteImage
    \/ EncodeImages \/ CallVision \/ CleanupSuccess \/ CleanupError

SpecVision == InitVision /\ [][NextVision]_vars

\* C18: when the vision path of convert_to_markdown has returned, on
\* whatever path, every page-image file the call created has been deleted.
C18_PageImagesReleased ==
    wrapper_pc = "returned" =>
        \A f \in temp_files : f.kind \notin {"doc_page", "doc_image"}

\* The raw text extrair_texto_pdf gives for the upload of a SpecGrids request.
ScrRawText == IF GridPayload.corrupt THEN <<>> ELSE Flatten(GridPayload.parts)

\* What the claim says an identity field is: the text between the first
\* occurrence of the anchor and the next line break after it, the
\* 'unidentified' default when the anchor (or that line break) is missing.
C21_Field(anchor, text) ==
    LET at == {k \in 1..Len(text) : text[k] = anchor} IN
    IF at = {} THEN NaoIdentificado
    ELSE LET first == CHOOSE k \in at : \A m \in at : k <= m
             breaks == {k \in (first + 1)..Len(text) : text[k] = "\n"}
         IN  IF breaks = {} THEN NaoIdentificado
             ELSE SubSeq(text, first + 1, (CHOOSE k \in breaks : \A m \in breaks : k <= m) - 1)

\* C21: company_name and company_tax_id are exactly the text between the
\* first occurrence of their anchor and the next line break after it, also
\* when further lines follow; without the anchor they are 'Nao identificado'.
C21_IdentityUpToNextLineBreak ==
    ScrReturned =>
        /\ scr_data.empresa_nome = C21_Field("Razao Social:", ScrRawText)
        /\ scr_data.empresa_cnpj = C21_Field("CNPJ:", ScrRawText)

\* The tokens of the corpus sent that precede the truncation marker.
KeptTokens == Encode(SubSeq(sent.corpus, 1, Len(sent.corpus) - Len(TruncationMarker)))

\* The allowance of the call that was made.
SentAllowance == LIMITE_PROMPT - sent.system_tokens - fixed_tokens

\* C22: when analyze_with_openai truncates, the tokens before the marker are
\* exactly the first `allowance` tokens of the original corpus, for every
\* allowance the code can compute: content goes from the end only.
C22_TruncationKeepsAllowancePrefix ==
    (Called /\ sent.truncated) =>
        /\ Len(KeptTokens) = SentAllowance
        /\ KeptTokens = SubSeq(Encode(combined_text), 1, SentAllowance)

\* The same for the calls whose allowance is not negative.
C22_PrefixWhenAllowanceNotNegative ==
    (Called /\ sent.truncated /\ SentAllowance >= 0) =>
        /\ Len(KeptTokens) = SentAllowance
        /\ KeptTokens = SubSeq(Encode(combined_text), 1, SentAllowance)


\* ---------------------------------- requests of one CNPJ card, two codes
\* Card texts with two labelled codes on two lines: every pair of label
\* phrases, each followed by a code of one of three divisions with three
\* different segments (47 retail, 10 industry, 85 education).
PriorityCodes == {<<"4", "7">>, <<"1", "0">>, <<"8", "5">>}

PriorityTexts ==
    {<<l1, c1[1], c1[2], "-", "1", "\n", l2, c2[1], c2[2], "-", "1">> :
        l1 \in CnaeLabels, c1 \in PriorityCodes, l2 \in CnaeLabels, c2 \in PriorityCodes}

InitPriority ==
    /\ \E texto \in PriorityTexts :
          files = <<Upload(<<"cartao", "_", "cnpj", ".pdf">>, PDF,
                           Payload(FALSE, <<texto>>, <<>>, FALSE)),
                    Upload(<<"REGISTRATO", ".pdf">>, PDF,
                           Payload(FALSE, <<T_scr>>, GridOf(Cell_1234_56, Cell_100), FALSE))>>
    /\ planning_data = "json"
    /\ user_id = "none"
    /\ reportsLeft = 0
    /\ pc = "start"
    /\ i = 1
    /\ combined_text = <<>>
    /\ processed_files = <<>>
    /\ registrato_files = <<>>
    /\ cartao_cnpj_text = <<>>
    /\ segment = "Outro"
    /\ r = 1
    /\ scr_data = Unbound
    /\ response = NoResponse
    /\ sent = NoCall
    /\ log = <<>>
    /\ WrapperIdle
    /\ CreditIdle

SpecPriority == InitPriority /\ [][Next]_vars

\* The rank of the first pattern of the ordered list that matches a label
\* phrase followed by a code; 5 for the phrase no pattern matches.
C23_Rank(label) ==
    CASE label = "CNAE principal: " -> 1
      [] label = "atividade economica principal: " -> 2
      [] label = "CODIGO E DESCRICAO DA ATIVIDADE ECONOMICA PRINCIPAL\n" -> 2
      [] label = "CODIGO E DESCRICAO DA ATIVIDADE ECONOMICA PRINCIPAL : " -> 3
      [] label = "principal - " -> 4
      [] OTHER -> 5

\* The two labelled codes of a SpecPriority card, in text order.
FirstLabel == CardText[1]
FirstCodeDivision == IntOfDigits(<<CardText[2], CardText[3]>>)
SecondLabel == CardText[7]
SecondCodeDivision == IntOfDigits(<<CardText[8], CardText[9]>>)

\* C23: the segment is decided by the first pattern of the ordered list that
\* matches anywhere in the text: when the later code of the text is matched
\* by a higher-priority pattern than the earlier one, the segment is the one
\* of the later code; otherwise it is the one of the earlier code, and the
\* patterns of lower priority play no part.
C23_PatternPriorityOverPosition ==
    SegmentDerived =>
        IF C23_Rank(SecondLabel) < C23_Rank(FirstLabel)
        THEN segment = C11_Label(SecondCodeDivision)
        ELSE IF C23_Rank(FirstLabel) < 5
        THEN segment = C11_Label(FirstCodeDivision)
        ELSE segment = "Outro"

C23_Witness ==
    /\ SegmentDerived
    /\ C23_Rank(SecondLabel) < C23_Rank(FirstLabel)
    /\ C23_Rank(FirstLabel) < 5
    /\ C11_Label(FirstCodeDivision) # C11_Label(SecondCodeDivision)
    /\ segment = C11_Label(SecondCodeDivision)


\* ------------------------------------ requests with documents without text
\* Uploads whose extraction yields no text or whitespace only (a scanned
\* image on which OCR reads blanks, an image with nothing to read, a PDF of
\* one blank page), next to uploads with text, a deferred one and one of an
\* unsupported type.
T_blank_scan == <<" ", "\n">>

EmptyUploads ==
    { Upload(<<"foto", ".jpg">>, JPEG, Payload(FALSE, <<T_blank_scan>>, <<>>, FALSE)),
      Upload(<<"cartao", ".jpg">>, JPEG, Payload(FALSE, <<>>, <<>>, FALSE)),
      Upload(<<"extrato", ".pdf">>, PDF, Payload(FALSE, <<<<" ">>>>, <<>>, FALSE)),
      Upload(<<"contrato", ".docx">>, DOCX, Payload(FALSE, <<T_invoice, <<" ">>, T_invoice>>, <<>>, FALSE)),
      Upload(<<"cartao", "_", "cnpj", ".pdf">>, PDF, Payload(FALSE, <<T_cnae_retail>>, <<>>, FALSE)),
      Upload(<<"REGISTRATO", ".pdf">>, PDF, Payload(FALSE, <<T_scr>>, GridOf(Cell_1234_56, Cell_100), FALSE)),
      Upload(<<"notas", ".txt">>, "text/plain", Payload(FALSE, <<T_invoice>>, <<>>, FALSE)) }

InitEmpties ==
    /\ files \in SeqsUpTo(EmptyUploads, MaxFiles)
    /\ planning_data \in {"none", "json"}
    /\ user_id = "none"
    /\ reportsLeft = 0
    /\ pc = "start"
    /\ i = 1
    /\ combined_text = <<>>
    /\ processed_files = <<>>
    /\ registrato_files = <<>>
    /\ cartao_cnpj_text = <<>>
    /\ segment = "Outro"
    /\ r = 1
    /\ scr_data = Unbound
    /\ response = NoResponse
    /\ sent = NoCall
    /\ log = <<>>
    /\ WrapperIdle
    /\ CreditIdle

SpecEmpties == InitEmpties /\ [][Next]_vars

\* The first pass has completed without a fatal error (line 524 is reached).
FirstPassComplete == pc = "extracted"

\* The text the first pass extracts from files[k] (none for a deferred one).
FirstPassText(k) == extract_text_from_document(files[k]).text

EntriesWithBlock ==
    SelectSeq(Indices(processed_files), LAMBDA k : processed_files[k].status # "vazio")

\* C24: when the first pass completes without a fatal error, processed_files
\* has exactly one entry per upload, in upload order, each with status
\* 'processado', 'vazio' or 'para_processamento'; an upload that is not
\* deferred has status 'vazio' exactly when its extracted text is empty or
\* whitespace-only, and the corpus has one block per entry that is not
\* 'vazio', in order, so an empty document contributes no block.
C24_OneEntryPerUpload ==
    FirstPassComplete =>
        /\ Len(processed_files) = Len(files)
        /\ \A k \in 1..Len(files) :
              /\ processed_files[k].filename = files[k].filename
              /\ processed_files[k].status \in {"processado", "vazio", "para_processamento"}
              /\ (processed_files[k].status = "para_processamento")
                    <=> (Route(files[k].filename) = "deferred")
              /\ Route(files[k].filename) # "deferred" =>
                    ((processed_files[k].status = "vazio")
                        <=> (\A n \in 1..Len(FirstPassText(k)) :
                                FirstPassText(k)[n] \in {" ", "\n", "\n\n"}))
        /\ DocHeadersOf(combined_text)
              = [n \in 1..Len(EntriesWithBlock) |->
                    <<processed_files[EntriesWithBlock[n]].category,
                      processed_files[EntriesWithBlock[n]].filename>>]

\* A completed first pass over two uploads: a document of whitespace-only
\* text, then a document with a block.
C24_Witness ==
    /\ FirstPassComplete
    /\ Len(files) = 2
    /\ processed_files[1].status = "vazio"
    /\ FirstPassText(1) # <<>>
    /\ processed_files[2].status = "processado"
    /\ Len(DocHeadersOf(combined_text)) = 1


\* C25: when the token count of the combined corpus is at most the document
\* allowance, the corpus is sent unchanged: the user prompt is the fixed
\* opening, the corpus as assembled and the fixed closing, with no token
\* removed and no truncation marker appended.
C25_WithinAllowanceSentUnchanged ==
    (Called /\ Len(Encode(combined_text)) <= SentAllowance) =>
        /\ sent.corpus = combined_text
        /\ sent.user_prompt = prompt_fixo \o combined_text \o prompt_final
        /\ ~Contains("[TEXTO TRUNCADO AUTOMATICAMENTE]", sent.user_prompt)

\* A corpus that fills the allowance exactly, sent whole.
C25_Witness ==
    /\ Called
    /\ Len(Encode(combined_text)) = SentAllowance
    /\ SentAllowance > 0
    /\ sent.corpus = combined_text


\* The structured-extraction result of the upload files[k] itself.
OwnScrText(k) ==
    ProcessedTextOf(extract_scr_data_from_pdf(files[k].payload, files[k].filename),
                    files[k].filename)

\* C26: in the corpus sent to the analysis model, the block of every
\* deferred document holds the structured-extraction result computed from
\* that same upload when its extraction returned, and an error text when
\* its processing failed, also when two uploads share a filename.
C26_BlockFromOwnFile ==
    Called =>
        \A k \in 1..Len(files) :
            /\ InLog("scr", k) => BodyOfDoc(combined_text, k) = OwnScrText(k) \o <<"\n\n">>
            /\ (InLog("registrato", k) /\ ~InLog("scr", k)) =>
                  HasErrorText(BodyOfDoc(combined_text, k))

\* The same for requests whose deferred uploads have distinct filenames.
C26_BlockFromOwnFileDistinctNames ==
    (Called /\ \A j, k \in 1..Len(files) :
                  (j # k /\ Route(files[j].filename) = "deferred"
                         /\ Route(files[k].filename) = "deferred")
                      => files[j].filename # files[k].filename) =>
        \A k \in 1..Len(files) :
            /\ InLog("scr", k) => BodyOfDoc(combined_text, k) = OwnScrText(k) \o <<"\n\n">>
            /\ (InLog("registrato", k) /\ ~InLog("scr", k)) =>
                  HasErrorText(BodyOfDoc(combined_text, k))


\* ------------------------- requests whose filenames hold corpus phrases
\* A deferred upload whose filename ends with the words of the planning
\* header, "registrato === DADOS DE PLANEJAMENTO", next to one with a plain
\* name, and CNPJ cards with and without text.
HeaderNameUploads ==
    { Upload(<<"registrato", " ", "=== DADOS DE PLANEJAMENTO">>, PDF,
             Payload(FALSE, <<T_scr>>, GridOf(Cell_1234_56, Cell_100), FALSE)),
      Upload(<<"REGISTRATO", ".pdf">>, PDF,
             Payload(FALSE, <<T_scr>>, GridOf(Cell_1234_56, Cell_100), FALSE)),
      Upload(<<"cartao", "_", "cnpj", ".pdf">>, PDF, Payload(FALSE, <<T_cnae_retail>>, <<>>, FALSE)),
      Upload(<<"cartao", ".jpg">>, JPEG, Payload(FALSE, <<>>, <<>>, FALSE)) }

InitHeaderNames ==
    /\ files \in SeqsUpTo(HeaderNameUploads, MaxFiles)
    /\ planning_data \in {"none", "json"}
    /\ user_id = "none"
    /\ reportsLeft = 0
    /\ pc = "start"
    /\ i = 1
    /\ combined_text = <<>>
    /\ processed_files = <<>>
    /\ registrato_files = <<>>
    /\ cartao_cnpj_text = <<>>
    /\ segment = "Outro"
    /\ r = 1
    /\ scr_data = Unbound
    /\ response = NoResponse
    /\ sent = NoCall
    /\ log = <<>>
    /\ WrapperIdle
    /\ CreditIdle

SpecHeaderNames == InitHeaderNames /\ [][Next]_vars

\* C27: whenever the analysis model is called, neither the assembled corpus
\* nor the corpus sent holds a first-pass placeholder of a deferred document,
\* whatever succeeded or failed during the second pass.
C27_NoPlaceholderAtModelCall ==
    Called =>
        /\ ~Contains(PlaceholderBody[1], combined_text)
        /\ ~Contains(PlaceholderBody[1], sent.corpus)

\* The same for requests in which no filename holds the words of the
\* planning header.
C27_NoPlaceholderWithPlainNames ==
    (Called /\ \A k \in 1..Len(files) : ~Contains(PlanHeader[1], files[k].filename)) =>
        /\ ~Contains(PlaceholderBody[1], combined_text)
        /\ ~Contains(PlaceholderBody[1], sent.corpus)


\* The request passed the credit gate with a user and failed afterwards.
FailedAfterGate ==
    /\ pc = "failed"
    /\ InLog("consumir_relatorio", 0)
    /\ response.status # 402

\* C28: if a request passes the credit gate and then fails (unsupported
\* content type, extraction error, no text extracted, analysis-model error),
\* the user's reportsLeft after the request equals its value before the
\* request.
C28_FailureRestoresCredit == FailedAfterGate => reportsLeft = reports_before

\* What the code does instead: the credit taken at the gate stays taken.
C28_FailureKeepsCreditConsumed == FailedAfterGate => reportsLeft = reports_before - 1


\* --------------------------------- concurrent consumir_relatorio calls
\* Several calls of consumir_relatorio for the same user (requests served by
\* different workers, or the analyze gate and the endpoint of line 1095):
\* each call is a read of the user's document (lines 808-818) followed, when
\* the counter read is positive, by an update of the field (lines 824-826).
\* Nothing ties the two together (no transaction, no increment operation),
\* so the steps of different calls interleave freely.
MaxCalls == 3
MaxReports == 2

Callers == 1..MaxCalls

CallAt(position, reports_left, success) ==
    [pc |-> position, reports_left |-> reports_left, success |-> success]

InitConcurrent ==
    /\ files = <<>>
    /\ planning_data = "none"
    /\ user_id = "u1"
    /\ reportsLeft \in 0..MaxReports
    /\ pc = "start"
    /\ i = 1
    /\ combined_text = <<>>
    /\ processed_files = <<>>
    /\ registrato_files = <<>>
    /\ cartao_cnpj_text = <<>>
    /\ segment = "Outro"
    /\ r = 1
    /\ scr_data = Unbound
    /\ response = NoResponse
    /\ sent = NoCall
    /\ log = <<>>
    /\ WrapperIdle
    /\ reports_before = reportsLeft
    /\ calls = [c \in Callers |-> CallAt("get", 0, FALSE)]

\* Lines 808-821: user_ref.get() and the test of the counter read; a
\* Firestore error is caught at line 832 and returns a failure.
ConsumirGet(c) ==
    /\ calls[c].pc = "get"
    /\ UNCHANGED <<analyzeVars, temp_files, wrapperVars, reports_before>>
    /\ \E firestore_ok \in BOOLEAN :
         IF ~firestore_ok THEN calls' = [calls EXCEPT ![c] = CallAt("returned", 0, FALSE)]
         ELSE IF ~consumir_relatorio(reportsLeft).success
         THEN calls' = [calls EXCEPT ![c] = CallAt("returned", reportsLeft, FALSE)]
         ELSE calls' = [calls EXCEPT ![c] = CallAt("update", reportsLeft, FALSE)]

\* Lines 824-831: user_ref.update with the value computed from the counter
\* this call has read, and the success result; a Firestore error writes
\* nothing and returns a failure (line 832).
ConsumirUpdate(c) ==
    /\ calls[c].pc = "update"
    /\ UNCHANGED <<files, planning_data, user_id, pc, i, combined_text, processed_files,
                   registrato_files, cartao_cnpj_text, segment, r, scr_data, response,
                   sent, log, temp_files, wrapperVars, reports_before>>
    /\ \E firestore_ok \in BOOLEAN :
         IF ~firestore_ok
         THEN /\ calls' = [calls EXCEPT ![c] = CallAt("returned", calls[c].reports_left, FALSE)]
              /\ UNCHANGED reportsLeft
         ELSE /\ reportsLeft' = consumir_relatorio(calls[c].reports_left).reports_left
              /\ calls' = [calls EXCEPT ![c] =
                              CallAt("returned", reportsLeft', TRUE)]

NextConcurrent == \E c \in Callers : ConsumirGet(c) \/ ConsumirUpdate(c)

SpecConcurrent == InitConcurrent /\ [][NextConcurrent]_vars

Successes == Cardinality({c \in Callers : calls[c].pc = "returned" /\ calls[c].success})

AllReturned == \A c \in Callers : calls[c].pc = "returned"

\* C29: for any interleaving of concurrent consumir_relatorio calls of one
\* user, the number of calls that return success never exceeds the value of
\* reportsLeft before the calls, and once all have returned reportsLeft
\* equals that value minus the number of successful calls.
C29_NoLostUpdate ==
    /\ Successes <= reports_before
    /\ AllReturned => reportsLeft = reports_before - Successes

\* What the interleavings do keep: the counter never goes below zero and
\* never above its value before the calls.
C29_CounterWithinRange == reportsLeft \in 0..reports_before


\* C30: the two debt fields are recovered independently: when the cell of
\* debt_current, (2,1), is present but its cleaned text does not parse as a
\* number, debt_overdue is still read from its own cell (2,2) and the record
\* returned carries the value of that cell.
C30_OverdueIndependentOfCurrent ==
    (ScrReturned /\ GridRows >= 3 /\ GridCols >= 3 /\ GridCell(2, 1) \in Unparsable)
        => scr_data.divida_vencida = C15_Value(GridCell(2, 2))

\* What the code does instead: the failure of the first cell ends the
\* recovery, with an error and the second field left at 0.0.
C30_CurrentFailureEndsRecovery ==
    (ScrReturned /\ GridRows >= 3 /\ GridCols >= 3 /\ GridCell(2, 1) \in Unparsable)
        => /\ scr_data.divida_vencida = 0
           /\ scr_data.erro # NoneValue

====
